---- MODULE Spec2Model ----
(***************************************************************************)
(* Certificate ledger of src/tmsl/app.py: the fingerprint routine          *)
(* generate_certificate_hash, the table CertificateHash and the two        *)
(* request handlers IssueCertificate.post and VerifyCertificate.post,      *)
(* run by concurrent request threads over one database.                    *)
(*                                                                         *)
(* A text value is a sequence of one-character strings.  A JSON object     *)
(* with the four certificate keys is a record over Fields whose value is   *)
(* Absent for a key the object does not have.                              *)
(***************************************************************************)
EXTENDS Integers, Sequences, FiniteSets, TLC

(* ----------------------------- bounds --------------------------------- *)
NumCallers == 2
MaxRecords == 2

(* ------------------------- values and inputs -------------------------- *)
Callers == 1..NumCallers

Fields == {"recipient", "course", "date", "issuer"}

Absent == <<"<absent>">>

NoId == "<absent>"

Uuids == {"u1", "u2"}

Times == {<<1, 0>>, <<1, 1>>, <<2, 0>>}

ThreadTimes == {<<1, 0>>, <<1, 1>>}

Doc(r, c, d, i) == [recipient |-> r, course |-> c, date |-> d, issuer |-> i]

EmptyObject == Doc(Absent, Absent, Absent, Absent)

(* ------------------- generate_certificate_hash ------------------------ *)
IsSpace(ch) == ch = " "

LowerChar(ch) ==
  CASE ch = "A" -> "a"
    [] ch = "B" -> "b"
    [] ch = "J" -> "j"
    [] OTHER -> ch

RECURSIVE LStrip(_)
LStrip(s) ==
  IF s # <<>> /\ IsSpace(Head(s)) THEN LStrip(Tail(s)) ELSE s

RECURSIVE RStrip(_)
RStrip(s) ==
  IF s # <<>> /\ IsSpace(s[Len(s)]) THEN RStrip(SubSeq(s, 1, Len(s) - 1)) ELSE s

strip(s) == RStrip(LStrip(s))

lower(s) == [k \in 1..Len(s) |-> LowerChar(s[k])]

(* Fault variant: a truthiness test in place of the membership test. *)
HasKey_truthy(data, k) == data[k] # Absent /\ data[k] # <<>>

HasKey(data, k) == data[k] # Absent

get(data, k) == IF HasKey(data, k) THEN data[k] ELSE <<>>

(* Fault variants of the canonical string: the course read in place of the  *)
(* recipient, a course that is not stripped, and fields joined without the  *)
(* separator.                                                               *)
data_string_course_twice(data) ==
  lower(strip(get(data, "course"))) \o <<"|">> \o
  lower(strip(get(data, "course"))) \o <<"|">> \o
  strip(get(data, "date")) \o <<"|">> \o
  lower(strip(get(data, "issuer")))

data_string_unstripped(data) ==
  lower(strip(get(data, "recipient"))) \o <<"|">> \o
  lower(get(data, "course")) \o <<"|">> \o
  strip(get(data, "date")) \o <<"|">> \o
  lower(strip(get(data, "issuer")))

data_string_unseparated(data) ==
  lower(strip(get(data, "recipient"))) \o
  lower(strip(get(data, "course"))) \o
  strip(get(data, "date")) \o
  lower(strip(get(data, "issuer")))

data_string(data) ==
  lower(strip(get(data, "recipient"))) \o <<"|">> \o
  lower(strip(get(data, "course"))) \o <<"|">> \o
  strip(get(data, "date")) \o <<"|">> \o
  lower(strip(get(data, "issuer")))

sha256_hexdigest(s) == <<"sha256">> \o s

generate_certificate_hash(data) == sha256_hexdigest(data_string(data))

(* Fault variant: any() written for all(). *)
AllRequired_any(data) == \E k \in Fields : HasKey(data, k)

AllRequired(data) == \A k \in Fields : HasKey(data, k)


(* ----------------------------- documents ------------------------------ *)
DBase == Doc(<<"a">>, <<"b">>, <<"j">>, <<"a">>)

DVariant == Doc(<<"A", " ">>, <<" ", "B">>, <<" ", "j">>, <<"A">>)

DDateCase == Doc(<<"a">>, <<"b">>, <<"J">>, <<"a">>)

DTamper == Doc(<<"b">>, <<"b">>, <<"j">>, <<"a">>)

DPipeLeft == Doc(<<"a", "|", "b">>, <<"b">>, <<"j">>, <<"a">>)

DPipeRight == Doc(<<"a">>, <<"b", "|", "b">>, <<"j">>, <<"a">>)

DEmpty == Doc(<<>>, <<>>, <<>>, <<>>)

DNoIssuer == Doc(<<"a">>, <<"b">>, <<"j">>, Absent)

CompleteDocs == {DBase, DVariant, DDateCase, DTamper, DPipeLeft, DPipeRight, DEmpty}

Docs == CompleteDocs \cup {DNoIssuer, EmptyObject}

IssueBodies ==
  [isObject : {TRUE}, data : Docs] \cup {[isObject |-> FALSE, data |-> EmptyObject]}

IdInputs == Uuids \cup {"nonexistent", "", NoId}

VerifyBodies ==
  [isObject : {TRUE}, certificate_id : IdInputs, certificate_data : Docs]
  \cup {[isObject |-> FALSE, certificate_id |-> NoId, certificate_data |-> EmptyObject]}

ThreadIssueBodies ==
  [isObject : {TRUE}, data : {DBase, DNoIssuer}]
  \cup {[isObject |-> FALSE, data |-> EmptyObject]}

ThreadVerifyBodies ==
  [isObject : {TRUE}, certificate_id : Uuids, certificate_data : {DBase, DTamper}]
  \cup {[isObject |-> TRUE, certificate_id |-> "", certificate_data |-> DBase],
        [isObject |-> TRUE, certificate_id |-> "u1", certificate_data |-> DNoIssuer],
        [isObject |-> FALSE, certificate_id |-> NoId, certificate_data |-> EmptyObject]}

(* ------------------------------ state --------------------------------- *)
VARIABLES
  ledger,     \* rows of table CertificateHash, in insertion order
  pc,         \* per caller: position inside the handler it is running
  req,        \* per caller: the request body being handled
  cert_uuid,  \* per caller: the identifier drawn by IssueCertificate.post
  resp,       \* per caller: the response the handler has built
  issued,     \* history: the 201 responses delivered, with their documents
  after,      \* history, per caller: the Verify began after its id was delivered
  canon_in,   \* two documents handed to the fingerprint routine
  canon_out   \* their canonical strings, <<>> until they are built

vars == <<ledger, pc, req, cert_uuid, resp, issued, after, canon_in, canon_out>>

NoReq == [op |-> "none", isObject |-> FALSE, certificate_id |-> NoId, data |-> EmptyObject]

NoResp ==
  [status |-> 0, message |-> "none", authentic |-> "absent", certificate_id |-> NoId,
   recorded_hash |-> Absent, verified_hash |-> Absent, issued_at |-> 0,
   issued_to |-> Absent]

(* Fault variant: the hash and the issuer passed in each other's place. *)
CertificateHash_swapped(cid, h, issuer, now) ==
  [certificate_id |-> cid, data_hash |-> issuer, issuer_name |-> h, issued_at |-> now]

CertificateHash(cid, h, issuer, now) ==
  [certificate_id |-> cid, data_hash |-> h, issuer_name |-> issuer, issued_at |-> now]

InitStore ==
  /\ ledger = <<>>
  /\ pc = [p \in Callers |-> "idle"]
  /\ req = [p \in Callers |-> NoReq]
  /\ cert_uuid = [p \in Callers |-> NoId]
  /\ resp = [p \in Callers |-> NoResp]
  /\ issued = <<>>
  /\ after = [p \in Callers |-> FALSE]

Init ==
  /\ InitStore
  /\ canon_in = <<DBase, DBase>>
  /\ canon_out = <<>>


(* --------------------------- the record store ------------------------- *)
(* Fault variant: a column declared without unique=True. *)
UniqueViolation_off(rows, cid) == FALSE

UniqueViolation(rows, cid) ==
  \E k \in 1..Len(rows) : rows[k].certificate_id = cid

CommitSucceeds(rows, rec, storageOk) ==
  storageOk /\ ~UniqueViolation(rows, rec.certificate_id)

(* Fault variants of the write: a merge that replaces the row holding the   *)
(* same identifier, and a failed commit whose row stays in the table.      *)
commit_upsert(rows, rec, storageOk) ==
  IF ~storageOk THEN rows
  ELSE IF UniqueViolation(rows, rec.certificate_id)
    THEN [k \in 1..Len(rows) |->
            IF rows[k].certificate_id = rec.certificate_id THEN rec ELSE rows[k]]
    ELSE Append(rows, rec)

commit_no_rollback(rows, rec, storageOk) ==
  IF UniqueViolation(rows, rec.certificate_id) THEN rows ELSE Append(rows, rec)

commit(rows, rec, storageOk) ==
  IF CommitSucceeds(rows, rec, storageOk) THEN Append(rows, rec) ELSE rows

(* Fault variants of the lookup: a query without its filter, a query that   *)
(* takes the newest row, and a read that does not see the newest row.       *)
first_unfiltered(rows, cid) == IF rows = <<>> THEN 0 ELSE 1

first_newest(rows, cid) == Len(rows)

first_stale(rows, cid) ==
  LET hits == {k \in 1..(Len(rows) - 1) : rows[k].certificate_id = cid}
  IN  IF hits = {} THEN 0 ELSE CHOOSE k \in hits : \A j \in hits : k <= j

first(rows, cid) ==
  LET hits == {k \in 1..Len(rows) : rows[k].certificate_id = cid}
  IN  IF hits = {} THEN 0 ELSE CHOOSE k \in hits : \A j \in hits : k <= j

strftime(t) == t[1]

(* ------------------------ IssueCertificate.post ----------------------- *)
IssueRequest(body) ==
  [op |-> "issue", isObject |-> body.isObject, certificate_id |-> NoId, data |-> body.data]

IssueError(status, message) ==
  [NoResp EXCEPT !.status = status, !.message = message]

IssueCreated(cid, h, data) ==
  [NoResp EXCEPT !.status = 201, !.message = "issued", !.certificate_id = cid,
                 !.recorded_hash = h, !.issued_to = data["recipient"]]

Pending == Cardinality({q \in Callers : pc[q] = "issue_commit"})

IssueValidate(p, body, u) ==
  /\ pc[p] = "idle"
  /\ Len(ledger) + Pending < MaxRecords
  /\ req' = [req EXCEPT ![p] = IssueRequest(body)]
  /\ IF ~body.isObject
       THEN /\ resp' = [resp EXCEPT ![p] = IssueError(500, "issuance error")]
            /\ pc' = [pc EXCEPT ![p] = "issue_return"]
            /\ UNCHANGED cert_uuid
       ELSE IF ~AllRequired(body.data)
         THEN /\ resp' = [resp EXCEPT ![p] = IssueError(400, "missing required fields")]
              /\ pc' = [pc EXCEPT ![p] = "issue_return"]
              /\ UNCHANGED cert_uuid
         ELSE /\ cert_uuid' = [cert_uuid EXCEPT ![p] = u]
              /\ pc' = [pc EXCEPT ![p] = "issue_commit"]
              /\ UNCHANGED resp
  /\ UNCHANGED <<ledger, issued, after, canon_in, canon_out>>

IssueCommit(p, now, storageOk) ==
  /\ pc[p] = "issue_commit"
  /\ LET new_hash == generate_certificate_hash(req[p].data)
         new_record == CertificateHash(cert_uuid[p], new_hash, req[p].data["issuer"], now)
     IN  /\ ledger' = commit(ledger, new_record, storageOk)
         /\ resp' = [resp EXCEPT ![p] =
                       IF CommitSucceeds(ledger, new_record, storageOk)
                         THEN IssueCreated(cert_uuid[p], new_hash, req[p].data)
                         ELSE IssueError(500, "issuance error")]
  /\ pc' = [pc EXCEPT ![p] = "issue_return"]
  /\ UNCHANGED <<req, cert_uuid, issued, after, canon_in, canon_out>>

IssueReturn(p) ==
  /\ pc[p] = "issue_return"
  /\ issued' = IF resp[p].status = 201
                 THEN Append(issued, [certificate_id |-> resp[p].certificate_id,
                                      recorded_hash |-> resp[p].recorded_hash,
                                      data |-> req[p].data])
                 ELSE issued
  /\ pc' = [pc EXCEPT ![p] = "idle"]
  /\ req' = [req EXCEPT ![p] = NoReq]
  /\ resp' = [resp EXCEPT ![p] = NoResp]
  /\ cert_uuid' = [cert_uuid EXCEPT ![p] = NoId]
  /\ UNCHANGED <<ledger, after, canon_in, canon_out>>

(* ----------------------- VerifyCertificate.post ----------------------- *)
VerifyRequest(body) ==
  [op |-> "verify", isObject |-> body.isObject, certificate_id |-> body.certificate_id,
   data |-> body.certificate_data]

VerifyError(status, message) ==
  [NoResp EXCEPT !.status = status, !.message = message]

VerifyNotFound ==
  [NoResp EXCEPT !.status = 404, !.message = "not found", !.authentic = "false"]

(* Fault variants of the verdict: the computed hash reported as the stored  *)
(* one, and the timestamp reported on a mismatch too.                       *)
VerifyVerdict_echo(row, verifier_hash) ==
  IF verifier_hash = row.data_hash
    THEN [NoResp EXCEPT !.status = 200, !.message = "verified", !.authentic = "true",
                        !.recorded_hash = verifier_hash, !.verified_hash = verifier_hash,
                        !.issued_at = strftime(row.issued_at)]
    ELSE [NoResp EXCEPT !.status = 200, !.message = "failed", !.authentic = "false",
                        !.recorded_hash = verifier_hash, !.verified_hash = verifier_hash]

VerifyVerdict_stamped(row, verifier_hash) ==
  [NoResp EXCEPT !.status = 200,
                 !.message = IF verifier_hash = row.data_hash THEN "verified" ELSE "failed",
                 !.authentic = IF verifier_hash = row.data_hash THEN "true" ELSE "false",
                 !.recorded_hash = row.data_hash, !.verified_hash = verifier_hash,
                 !.issued_at = strftime(row.issued_at)]

VerifyVerdict(row, verifier_hash) ==
  IF verifier_hash = row.data_hash
    THEN [NoResp EXCEPT !.status = 200, !.message = "verified", !.authentic = "true",
                        !.recorded_hash = row.data_hash, !.verified_hash = verifier_hash,
                        !.issued_at = strftime(row.issued_at)]
    ELSE [NoResp EXCEPT !.status = 200, !.message = "failed", !.authentic = "false",
                        !.recorded_hash = row.data_hash, !.verified_hash = verifier_hash]

Falsy(v) == v = NoId \/ v = ""

IssuedIds == {issued[k].certificate_id : k \in 1..Len(issued)}

VerifyValidate(p, body) ==
  /\ pc[p] = "idle"
  /\ req' = [req EXCEPT ![p] = VerifyRequest(body)]
  /\ IF ~body.isObject
       THEN /\ resp' = [resp EXCEPT ![p] = VerifyError(500, "verification error")]
            /\ pc' = [pc EXCEPT ![p] = "verify_return"]
            /\ UNCHANGED after
       ELSE IF Falsy(body.certificate_id) \/ body.certificate_data = EmptyObject
         THEN /\ resp' = [resp EXCEPT ![p] = VerifyError(400, "missing id or data")]
              /\ pc' = [pc EXCEPT ![p] = "verify_return"]
              /\ UNCHANGED after
         ELSE IF ~AllRequired(body.certificate_data)
           THEN /\ resp' = [resp EXCEPT ![p] = VerifyError(400, "incomplete data")]
                /\ pc' = [pc EXCEPT ![p] = "verify_return"]
                /\ UNCHANGED after
           ELSE /\ pc' = [pc EXCEPT ![p] = "verify_lookup"]
                /\ after' = [after EXCEPT ![p] = body.certificate_id \in IssuedIds]
                /\ UNCHANGED resp
  /\ UNCHANGED <<ledger, cert_uuid, issued, canon_in, canon_out>>

(* Fault variant: a lookup that creates the row it does not find. *)
VerifyLookup_get_or_create(p) ==
  /\ pc[p] = "verify_lookup"
  /\ LET k == first(ledger, req[p].certificate_id)
         verifier_hash == generate_certificate_hash(req[p].data)
     IN  /\ resp' = [resp EXCEPT ![p] =
                       IF k = 0 THEN VerifyNotFound
                       ELSE VerifyVerdict(ledger[k], verifier_hash)]
         /\ ledger' = IF k = 0
                        THEN Append(ledger, CertificateHash(req[p].certificate_id,
                               verifier_hash, req[p].data["issuer"], <<1, 0>>))
                        ELSE ledger
  /\ pc' = [pc EXCEPT ![p] = "verify_return"]
  /\ UNCHANGED <<req, cert_uuid, issued, after, canon_in, canon_out>>

VerifyLookup(p) ==
  /\ pc[p] = "verify_lookup"
  /\ LET k == first(ledger, req[p].certificate_id)
     IN  resp' = [resp EXCEPT ![p] =
                    IF k = 0 THEN VerifyNotFound
                    ELSE VerifyVerdict(ledger[k], generate_certificate_hash(req[p].data))]
  /\ pc' = [pc EXCEPT ![p] = "verify_return"]
  /\ UNCHANGED <<ledger, req, cert_uuid, issued, after, canon_in, canon_out>>

VerifyReturn(p) ==
  /\ pc[p] = "verify_return"
  /\ pc' = [pc EXCEPT ![p] = "idle"]
  /\ req' = [req EXCEPT ![p] = NoReq]
  /\ resp' = [resp EXCEPT ![p] = NoResp]
  /\ after' = [after EXCEPT ![p] = FALSE]
  /\ UNCHANGED <<ledger, cert_uuid, issued, canon_in, canon_out>>

(* --------------------------- specification ---------------------------- *)
Step(callers, issueBodies, verifyBodies, uuids, times) ==
  \E p \in callers :
    \/ \E body \in issueBodies, u \in uuids : IssueValidate(p, body, u)
    \/ \E now \in times, storageOk \in BOOLEAN : IssueCommit(p, now, storageOk)
    \/ IssueReturn(p)
    \/ \E body \in verifyBodies : VerifyValidate(p, body)
    \/ VerifyLookup(p)
    \/ VerifyReturn(p)

(* Concurrent request threads over a few documents. *)
Next == Step(Callers, ThreadIssueBodies, ThreadVerifyBodies, Uuids, ThreadTimes)

Spec == Init /\ [][Next]_vars

(* One request at a time over every document and identifier input. *)
NextDocs == Step({1}, IssueBodies, VerifyBodies, Uuids, Times)

SpecDocs == Init /\ [][NextDocs]_vars

(* Two request threads over two documents and their identifiers. *)
PairIssueBodies == [isObject : {TRUE}, data : {DBase, DTamper}]

PairVerifyBodies ==
  [isObject : {TRUE}, certificate_id : Uuids, certificate_data : {DBase, DTamper}]

NextPair == Step({1, 2}, PairIssueBodies, PairVerifyBodies, Uuids, ThreadTimes)

SpecPair == Init /\ [][NextPair]_vars

(* The fingerprint routine alone, on every pair of documents over a few     *)
(* values per field.                                                        *)
CanonNames == {<<>>, <<"a">>, <<"A", " ">>, <<"b">>, <<"a", "|", "b">>, <<"|">>}

CanonDates == {<<"j">>, <<"J">>, <<" ", "j">>}

CanonIssuers == {<<"a">>, <<"A">>}

CanonDocs ==
  {Doc(r, c, d, i) : r \in CanonNames, c \in CanonNames, d \in CanonDates,
                     i \in CanonIssuers}

InitCanon ==
  /\ InitStore
  /\ canon_in \in CanonDocs \X CanonDocs
  /\ canon_out = <<>>

Canonicalize ==
  /\ canon_out = <<>>
  /\ canon_out' = <<data_string(canon_in[1]), data_string(canon_in[2])>>
  /\ UNCHANGED <<ledger, pc, req, cert_uuid, resp, issued, after, canon_in>>

NextCanon == Canonicalize

SpecCanon == InitCanon /\ [][NextCanon]_vars

(* ============================ properties ============================== *)
Verified(p) == pc[p] = "verify_return" /\ req[p].isObject

IssuedAs(cid, data) ==
  \E k \in 1..Len(issued) : issued[k].certificate_id = cid /\ issued[k].data = data

IssuedDocs(cid) ==
  {issued[k].data : k \in {j \in 1..Len(issued) : issued[j].certificate_id = cid}}

Complete(data) == \A k \in Fields : data[k] # Absent

HasPipe(data) == \E k \in Fields : \E n \in 1..Len(data[k]) : data[k][n] = "|"

(* D and D' agree up to surrounding whitespace and letter case in every field. *)
SameUpToCase(d, e) == \A k \in Fields : lower(strip(d[k])) = lower(strip(e[k]))

(* D and D' agree up to surrounding whitespace in every field and up to    *)
(* letter case in recipient, course and issuer.                            *)
SameUpToCaseButDate(d, e) ==
  /\ \A k \in Fields \ {"date"} : lower(strip(d[k])) = lower(strip(e[k]))
  /\ strip(d["date"]) = strip(e["date"])

Mismatch(r) ==
  /\ r.status = 200
  /\ r.authentic = "false"
  /\ r.recorded_hash # Absent
  /\ r.verified_hash # Absent
  /\ r.recorded_hash # r.verified_hash

(* C1: a Verify of an identifier with the exact document of the Issue that  *)
(* returned it, begun after that Issue returned, answers authentic = true,  *)
(* whatever other calls came in between.                                    *)
C1_VerificationCorrect ==
  \A p \in Callers :
    (Verified(p) /\ after[p] /\ IssuedAs(req[p].certificate_id, req[p].data))
      => (resp[p].status = 200 /\ resp[p].authentic = "true")

C1_Witness ==
  \E p \in Callers :
    /\ Verified(p) /\ after[p] /\ IssuedAs(req[p].certificate_id, req[p].data)
    /\ resp[p].authentic = "true"
    /\ Len(ledger) = 2
    /\ ledger[1].data_hash # ledger[2].data_hash
    /\ req[p].certificate_id = ledger[2].certificate_id

(* C2 as stated: a complete candidate that differs from the issued document *)
(* by more than surrounding whitespace or letter case in some field gets    *)
(* authentic = false with two different fingerprints.                       *)
C2_TamperDetected_AsStated ==
  \A p \in Callers :
    (Verified(p) /\ after[p] /\ Complete(req[p].data))
      => \A d \in IssuedDocs(req[p].certificate_id) :
           ~SameUpToCase(d, req[p].data) => Mismatch(resp[p])

(* C2 amended: the same, for an issued document and a candidate of which    *)
(* at least one has no pipe character in any field value.                   *)
C2_TamperDetected ==
  \A p \in Callers :
    (Verified(p) /\ after[p] /\ Complete(req[p].data))
      => \A d \in IssuedDocs(req[p].certificate_id) :
           (~SameUpToCase(d, req[p].data) /\ (~HasPipe(d) \/ ~HasPipe(req[p].data)))
             => Mismatch(resp[p])

C2_Witness ==
  \E p \in Callers :
    /\ Verified(p) /\ after[p] /\ Complete(req[p].data)
    /\ \E d \in IssuedDocs(req[p].certificate_id) :
         /\ ~SameUpToCase(d, req[p].data)
         /\ HasPipe(d) /\ ~HasPipe(req[p].data)
    /\ Mismatch(resp[p])

C4_IdentifiersUnique ==
  /\ \A j, k \in 1..Len(ledger) :
       ledger[j].certificate_id = ledger[k].certificate_id => j = k
  /\ \A j, k \in 1..Len(issued) :
       issued[j].certificate_id = issued[k].certificate_id => j = k

C4_Witness ==
  /\ Len(ledger) = 2
  /\ Len(issued) = 2
  /\ issued[1].data = issued[2].data
  /\ issued[1].certificate_id # issued[2].certificate_id

(* C5: every step keeps every row of the table as it is, in its place: rows *)
(* are only ever added, so the row of a returned identifier is never        *)
(* changed or removed by a later Issue or Verify, successful or failed.     *)
C5_Immutable ==
  [][/\ Len(ledger') >= Len(ledger)
     /\ \A k \in 1..Len(ledger) : ledger'[k] = ledger[k]]_vars

C5_Witness ==
  /\ Len(issued) = 2
  /\ Len(ledger) = 2
  /\ ledger[1].certificate_id = issued[1].certificate_id
  /\ ledger[1].data_hash = issued[1].recorded_hash
  /\ ledger[1].data_hash # ledger[2].data_hash
  /\ \E p \in Callers :
       /\ Verified(p)
       /\ req[p].certificate_id = issued[1].certificate_id
       /\ resp[p].status = 200

(* C6 as stated: a Verify of any identifier string that no row holds, with  *)
(* a complete candidate, answers NotFound: authentic = false and no         *)
(* fingerprints.                                                            *)
NotFoundResult(r) ==
  /\ r.status = 404
  /\ r.authentic = "false"
  /\ r.recorded_hash = Absent
  /\ r.verified_hash = Absent

InLedger(cid) == \E k \in 1..Len(ledger) : ledger[k].certificate_id = cid

C6_UnknownIdentifier_AsStated ==
  \A p \in Callers :
    (/\ Verified(p)
     /\ req[p].certificate_id # NoId
     /\ Complete(req[p].data)
     /\ ~InLedger(req[p].certificate_id))
      => NotFoundResult(resp[p])

(* C6 amended: a Verify of any non-empty identifier string that no row      *)
(* holds, with a complete candidate, answers NotFound (authentic = false,   *)
(* no fingerprints), which is no mismatch result; and a Verify of an        *)
(* identifier that no row holds, empty or not, never answers authentic =    *)
(* true.                                                                    *)
C6_UnknownIdentifier ==
  \A p \in Callers :
    (/\ Verified(p)
     /\ req[p].certificate_id # NoId
     /\ Complete(req[p].data)
     /\ ~InLedger(req[p].certificate_id))
      => /\ resp[p].authentic # "true"
         /\ ~Mismatch(resp[p])
         /\ req[p].certificate_id # "" => NotFoundResult(resp[p])

C6_Witness ==
  \E p \in Callers :
    /\ Verified(p)
    /\ req[p].certificate_id \notin {NoId, ""}
    /\ Complete(req[p].data)
    /\ ~InLedger(req[p].certificate_id)
    /\ Len(ledger) >= 1
    /\ ledger[1].data_hash = generate_certificate_hash(req[p].data)
    /\ NotFoundResult(resp[p])

(* C7: a step in which an Issue ends in an error, the validation error or a *)
(* storage failure, leaves the table exactly as it was.                     *)
C7_FailedIssueKeepsStore ==
  [][\A p \in Callers :
       (pc[p] \in {"idle", "issue_commit"} /\ pc'[p] = "issue_return"
          /\ resp'[p].status # 201)
         => ledger' = ledger]_vars

C7_Witness ==
  \E p \in Callers :
    /\ pc[p] = "issue_return"
    /\ resp[p].status = 500
    /\ Complete(req[p].data)
    /\ ~InLedger(cert_uuid[p])
    /\ Len(ledger) = 1

(* C8: a Verify whose candidate lacks one of the four fields answers the    *)
(* malformed-input error, whether or not a row holds the identifier; it     *)
(* answers neither NotFound nor a verdict.                                  *)
C8_VerifyValidatesFirst ==
  \A p \in Callers :
    (Verified(p) /\ ~Complete(req[p].data))
      => (resp[p].status = 400 /\ resp[p].authentic = "absent")

C8_Witness ==
  \E p \in Callers :
    /\ Verified(p)
    /\ ~Complete(req[p].data)
    /\ req[p].data # EmptyObject
    /\ InLedger(req[p].certificate_id)
    /\ resp[p].status = 400

(* C9: a Verify that begins after an Issue returned its identifier never    *)
(* answers NotFound for that identifier, whichever caller runs it.          *)
C9_AppendVisible ==
  \A p \in Callers :
    (Verified(p) /\ after[p]) => resp[p].status # 404

C9_Witness ==
  \E p, q \in Callers :
    /\ p # q
    /\ Verified(p) /\ after[p]
    /\ resp[p].status = 200
    /\ pc[q] = "issue_commit"

(* C10: an Issue whose generated identifier is already held by a row ends   *)
(* in an error; the row is kept as it was and no row is added.              *)
C10_CollisionRejected ==
  [][\A p \in Callers :
       (pc[p] = "issue_commit" /\ pc'[p] = "issue_return"
          /\ InLedger(cert_uuid[p]))
         => (ledger' = ledger /\ resp'[p].status = 500)]_vars

C10_Witness ==
  \E p \in Callers :
    /\ pc[p] = "issue_return"
    /\ resp[p].status = 500
    /\ Complete(req[p].data)
    /\ \E k \in 1..Len(ledger) :
         /\ ledger[k].certificate_id = cert_uuid[p]
         /\ ledger[k].data_hash # generate_certificate_hash(req[p].data)

(* C11: an Issue of a JSON object answers the validation error exactly when *)
(* one of the four keys is absent; a document with all four keys is         *)
(* accepted with empty values too, its row is in the table once the Issue   *)
(* succeeds, and a Verify of the returned identifier with the same document *)
(* answers authentic = true.                                                *)
SomeEmpty(data) == \E k \in Fields : data[k] = <<>>

C11_ValidationExact ==
  \A p \in Callers :
    /\ (pc[p] = "issue_return" /\ req[p].isObject)
         => /\ resp[p].status = 400 <=> ~Complete(req[p].data)
            /\ Complete(req[p].data) => resp[p].status \in {201, 500}
            /\ resp[p].status = 201 =>
                 \E k \in 1..Len(ledger) :
                   /\ ledger[k].certificate_id = resp[p].certificate_id
                   /\ ledger[k].data_hash = resp[p].recorded_hash
    /\ (Verified(p) /\ after[p] /\ SomeEmpty(req[p].data)
          /\ IssuedAs(req[p].certificate_id, req[p].data))
         => resp[p].authentic = "true"

C11_Witness ==
  \E p \in Callers :
    /\ Verified(p) /\ after[p]
    /\ \A k \in Fields : req[p].data[k] = <<>>
    /\ IssuedAs(req[p].certificate_id, req[p].data)
    /\ resp[p].authentic = "true"

(* C12: a Verify that finds the row of an identifier returned by an Issue   *)
(* with fingerprint F reports F as the stored fingerprint, on a match and   *)
(* on a mismatch, and on a mismatch the computed fingerprint is not F.      *)
C12_StoredFingerprint ==
  \A p \in Callers :
    (Verified(p) /\ resp[p].status = 200)
      => \A k \in 1..Len(issued) :
           issued[k].certificate_id = req[p].certificate_id
             => /\ resp[p].recorded_hash = issued[k].recorded_hash
                /\ resp[p].authentic = "false"
                     => resp[p].verified_hash # issued[k].recorded_hash

C12_Witness ==
  \E p \in Callers :
    /\ Verified(p)
    /\ resp[p].status = 200
    /\ resp[p].authentic = "false"
    /\ \E k \in 1..Len(issued) :
         /\ issued[k].certificate_id = req[p].certificate_id
         /\ resp[p].recorded_hash = issued[k].recorded_hash
         /\ resp[p].verified_hash = generate_certificate_hash(req[p].data)

(* C13 as stated: a Verify result carries a timestamp exactly when it is     *)
(* authentic = true, and the timestamp is then the issued_at value of the   *)
(* row: read back as a time it is that value, sub-second part included.     *)
RowOf(cid) == ledger[CHOOSE k \in 1..Len(ledger) : ledger[k].certificate_id = cid]

C13_Timestamp_AsStated ==
  \A p \in Callers :
    pc[p] = "verify_return"
      => /\ resp[p].issued_at # 0 <=> resp[p].authentic = "true"
         /\ resp[p].authentic = "true"
              => /\ InLedger(req[p].certificate_id)
                 /\ <<resp[p].issued_at, 0>> = RowOf(req[p].certificate_id).issued_at

(* C13 amended: a Verify result carries a timestamp exactly when it is      *)
(* authentic = true, and the timestamp is then the issued_at value of the   *)
(* row rendered to whole seconds, its sub-second part dropped; a mismatch   *)
(* result and a NotFound result carry no timestamp.                         *)
C13_Timestamp ==
  \A p \in Callers :
    pc[p] = "verify_return"
      => /\ resp[p].issued_at # 0 <=> resp[p].authentic = "true"
         /\ resp[p].authentic = "true"
              => /\ InLedger(req[p].certificate_id)
                 /\ resp[p].issued_at = RowOf(req[p].certificate_id).issued_at[1]

C13_Witness ==
  \E p \in Callers :
    /\ pc[p] = "verify_return"
    /\ resp[p].authentic = "true"
    /\ InLedger(req[p].certificate_id)
    /\ RowOf(req[p].certificate_id).issued_at = <<1, 1>>
    /\ resp[p].issued_at = 1
    /\ Len(ledger) = 2

(* C14: every step of a Verify, whatever the answer it leads to, leaves the *)
(* table as it was: no row is added and none is altered.                    *)
VerifyStep(p) ==
  \/ pc[p] = "idle" /\ pc'[p] \in {"verify_lookup", "verify_return"}
  \/ pc[p] = "verify_lookup" /\ pc'[p] = "verify_return"
  \/ pc[p] = "verify_return" /\ pc'[p] = "idle"

C14_VerifyReadOnly ==
  [][\A p \in Callers : VerifyStep(p) => ledger' = ledger]_vars

C14_Witness ==
  \E p \in Callers :
    /\ pc[p] = "verify_return"
    /\ resp[p].status = 404
    /\ Len(ledger) = 1
    /\ Len(issued) = 1

(* C15: two Verify results for the same identifier and the same candidate,  *)
(* both begun after the identifier was returned, carry the same verdict and *)
(* the same stored and computed fingerprints, whatever Issue and Verify     *)
(* calls ran between the two.                                               *)
C15_VerdictStable ==
  \A p, q \in Callers :
    (/\ Verified(p) /\ after[p]
     /\ Verified(q) /\ after[q]
     /\ req[p].certificate_id = req[q].certificate_id
     /\ req[p].data = req[q].data)
      => /\ resp[p].status = resp[q].status
         /\ resp[p].authentic = resp[q].authentic
         /\ resp[p].recorded_hash = resp[q].recorded_hash
         /\ resp[p].verified_hash = resp[q].verified_hash

C15_Witness ==
  \E p, q \in Callers :
    /\ p # q
    /\ Verified(p) /\ after[p]
    /\ Verified(q) /\ after[q]
    /\ req[p].certificate_id = req[q].certificate_id
    /\ req[p].data = req[q].data
    /\ resp[p].authentic = "false"
    /\ resp[q] = resp[p]
    /\ Len(ledger) = 2
    /\ ledger[1].data_hash # ledger[2].data_hash
    /\ req[p].certificate_id = ledger[1].certificate_id

(* C16: for two documents without a pipe character in any field value, the *)
(* canonical strings are equal exactly when the trimmed, lower-cased        *)
(* recipient, course and issuer and the trimmed date are pairwise equal; so *)
(* two documents that differ in a normalized field get one canonical string *)
(* only when a field value holds a pipe.                                    *)
C16_CanonInjective ==
  canon_out # <<>>
    => /\ (~HasPipe(canon_in[1]) /\ ~HasPipe(canon_in[2]))
            => (canon_out[1] = canon_out[2]
                  <=> SameUpToCaseButDate(canon_in[1], canon_in[2]))
       /\ (canon_out[1] = canon_out[2]
             /\ ~SameUpToCaseButDate(canon_in[1], canon_in[2]))
            => (HasPipe(canon_in[1]) \/ HasPipe(canon_in[2]))

C16_Witness ==
  /\ canon_out # <<>>
  /\ ~HasPipe(canon_in[1]) /\ ~HasPipe(canon_in[2])
  /\ \A k \in Fields \ {"date"} : canon_in[1][k] # canon_in[2][k]
  /\ canon_in[1]["date"] # canon_in[2]["date"]
  /\ canon_out[1] = canon_out[2]

====
